---------------------------- MODULE Spec2Model ----------------------------
(***************************************************************************)
(* A model of backend/main.py: five Flask handlers (add_user, get_partner, *)
(* request_partner, list_notes, add_note) over four NDB kinds (User,       *)
(* PartnerRequest, Relationship, Note).                                    *)
(*                                                                         *)
(* The datastore is modelled as the handlers use it.  Note rows live under *)
(* an ancestor key and are read by an ancestor query, which observes every *)
(* committed row.  User, PartnerRequest and Relationship rows are root     *)
(* entities read by non-ancestor queries; such a query is served from an   *)
(* index to which a committed row is applied some time after put()         *)
(* returns.  Each of these kinds therefore has the committed rows and the  *)
(* set of row values already applied to the index.  Rows are never deleted *)
(* or updated by any handler.                                              *)
(*                                                                         *)
(* The "created" property of User, PartnerRequest and Relationship is      *)
(* written by auto_now_add and never read by any handler; it is left out.  *)
(***************************************************************************)
EXTENDS Integers, Sequences, FiniteSets, Bags, TLC

\* ------------------------------------------------------------------ bounds
MaxUsers    == 2   \* User rows in the datastore
MaxRequests == 2   \* PartnerRequest rows in the datastore
MaxRels     == 2   \* Relationship rows in the datastore
MaxNotes    == 2   \* Note rows in the datastore
MaxClock    == 1   \* how far the wall clock advances
MaxInFlight == 2   \* request_partner calls being served at once
MaxRows     == 3   \* rows of all kinds, where all five endpoints run together

\* ------------------------------------------------- tokens, claims, inputs
EmailA  == "a@x"
EmailAB == "ab@x"
EmailB  == "b@x"
Emails  == {EmailA, EmailAB, EmailB}

\* The characters of a string, as their code points: what sorted() compares.
Chars(email) ==
    CASE email = "a@x"  -> <<97, 64, 120>>
      [] email = "ab@x" -> <<97, 98, 64, 120>>
      [] email = "b@x"  -> <<98, 64, 120>>

\* The falsy value verify_firebase_token hands back for a token it rejects.
NoClaims == [valid |-> FALSE]

\* google.oauth2.id_token.verify_firebase_token: the claims of a token.  The
\* claims of a provider may lack "name", or "name" and "email" (line 210).
verify_firebase_token(id_token) ==
    CASE id_token = "tokA" -> [sub |-> "uidA", name |-> "Alice", email |-> EmailA]
      [] id_token = "tokB" -> [sub |-> "uidB", name |-> "Bob", email |-> EmailB]
      [] id_token = "tokE" -> [sub |-> "uidE", email |-> EmailAB]
      [] id_token = "tokN" -> [sub |-> "uidN"]
      [] OTHER             -> NoClaims

\* "not claims"
Falsy(claims) == claims = NoClaims

Has(claims, key) == key \in DOMAIN claims

\* The Authorization headers the partner endpoints are called with: two full
\* identities, one without name and email, one token that fails verification.
PartnerCallers == {"tokA", "tokB", "tokN", "bad"}

\* The Authorization headers the note endpoints are called with: a full
\* identity, one with an email only, one with neither, one that fails.
NoteCallers == {"tokA", "tokE", "tokN", "bad"}

Messages == {"hello", "bye"}

\* ------------------------------------------------------------ the state
VARIABLES
    users,        \* User rows: a bag of [name, email, uid]
    usersIdx,     \* User row values applied to the query index
    requests,     \* PartnerRequest rows: a bag of [asker, receiver]
    requestsIdx,  \* PartnerRequest row values applied to the query index
    rels,         \* Relationship rows: a bag of [partner1, partner2]
    relsIdx,      \* Relationship row values applied to the query index
    notes,        \* Note rows: [parent, id, friendly_id, message, created]
    now,          \* the wall clock auto_now_add reads
    calls,        \* the request_partner calls in flight: a bag of call frames
    resp          \* the last call that returned: its request and its response

vars == <<users, usersIdx, requests, requestsIdx, rels, relsIdx, notes, now,
          calls, resp>>

\* The four kinds' rows.
store == <<users, requests, rels, notes>>

\* ------------------------------------------------------------- row bags
\* A kind's rows are a bag of row values: rows have auto-allocated keys, so
\* equal values may repeat.
UserRows == { [name |-> verify_firebase_token(t).name,
               email |-> verify_firebase_token(t).email,
               uid |-> verify_firebase_token(t).sub] :
              t \in {u \in PartnerCallers :
                       /\ ~Falsy(verify_firebase_token(u))
                       /\ Has(verify_firebase_token(u), "name")
                       /\ Has(verify_firebase_token(u), "email")} }

RequestRows == [asker : Emails, receiver : Emails]

RelRows == [partner1 : Emails, partner2 : Emails]

\* A request_partner call between its datastore operations: its claims' token,
\* the partner email of its body, and what the reciprocal query found.
CallFrames ==
    [pc : {"query"}, token : PartnerCallers, email : Emails]
      \cup [pc : {"insert"}, token : PartnerCallers, email : Emails,
            found : BOOLEAN]

Count(bag) == BagCardinality(bag)

Copies(bag, row) == CopiesIn(row, bag)

Put(bag, row) == bag (+) SetToBag({row})

Take(bag, row) == bag (-) SetToBag({row})

Present(bag) == BagToSet(bag)

\* ---------------------------------------------------------------- sorted
RECURSIVE LexLess(_, _)
\* Python's ordering of two sequences: by the first differing element, a
\* proper prefix first.
LexLess(s, t) ==
    IF s = <<>> THEN t # <<>>
    ELSE IF t = <<>> THEN FALSE
    ELSE IF Head(s) # Head(t) THEN Head(s) < Head(t)
    ELSE LexLess(Tail(s), Tail(t))

\* sorted() left out: the pair as the call has it, partner named first.
sorted_left_out(x, y) == <<x, y>>

\* sorted([x, y])
sorted(x, y) == IF LexLess(Chars(y), Chars(x)) THEN <<y, x>> ELSE <<x, y>>

\* ------------------------------------------------------------ responses
NoResp == [op |-> "none"]

\* A response body: text, or a JSON value.
Text(string) == [text |-> string]

Json(value) == [json |-> value]

\* The JSON body of a request, and the request without one.
NoBody == [none |-> TRUE]

Partner(email) == [partner |-> email]

Message(message) == [message |-> message]

\* A returned call: the handler, the token and body argument it was called
\* with, and the status and body it returned.
Response(op, tok, arg, status, body) ==
    [op |-> op, token |-> tok, arg |-> arg, status |-> status, body |-> body]

\* server_error: what an unhandled exception becomes.
server_error(op, tok, arg) ==
    Response(op, tok, arg, 500, Text("An internal error occurred."))

\* The rejection sent with another status.
Unauthorized_as_403(op, tok, arg) == Response(op, tok, arg, 403, Text("Unauthorized"))

Unauthorized(op, tok, arg) == Response(op, tok, arg, 401, Text("Unauthorized"))

Init ==
    /\ users = EmptyBag
    /\ usersIdx = {}
    /\ requests = EmptyBag
    /\ requestsIdx = {}
    /\ rels = EmptyBag
    /\ relsIdx = {}
    /\ notes = {}
    /\ now = 0
    /\ calls = EmptyBag
    /\ resp = NoResp

\* ------------------------------------------------------- datastore queries
\* Query.get() of a non-ancestor query: some row of the kind that matches and
\* is applied to the index, or None.  Queryable(bag, idx) is the set of row
\* values a query of the kind can see; the rows of it that match the filter
\* are those get() may hand back, none when get() hands back None.
Queryable(bag, idx) == Present(bag) \cap idx

\* ---------------------------------------------------------------- add_user
add_user(id_token) ==
    LET claims == verify_firebase_token(id_token)
        ByUid(row) == row.uid = claims.sub
    IN IF Falsy(claims)
       THEN /\ resp' = Unauthorized("add_user", id_token, NoBody)
            /\ UNCHANGED users
       ELSE IF {row \in Queryable(users, usersIdx) : ByUid(row)} # {}
       THEN /\ resp' = Response("add_user", id_token, NoBody, 200, Text("Added user"))
            /\ UNCHANGED users
       ELSE IF ~Has(claims, "name") \/ ~Has(claims, "email")
       THEN \* claims['name'] or claims['email'] raises KeyError
            /\ resp' = server_error("add_user", id_token, NoBody)
            /\ UNCHANGED users
       ELSE /\ Count(users) < MaxUsers
            /\ users' = Put(users, [name |-> claims.name, email |-> claims.email,
                                    uid |-> claims.sub])
            /\ resp' = Response("add_user", id_token, NoBody, 200, Text("Added user"))

AddUser ==
    /\ \E id_token \in PartnerCallers : add_user(id_token)
    /\ UNCHANGED <<usersIdx, requests, requestsIdx, rels, relsIdx, notes, now,
                   calls>>

\* ------------------------------------------------------------- get_partner
\* Line 124: the partner a found relationship names for the caller.
partner_email(relationship, email) ==
    IF relationship.partner1 # email THEN relationship.partner1
    ELSE relationship.partner2

get_partner(id_token) ==
    LET claims == verify_firebase_token(id_token)
    IN IF Falsy(claims)
       THEN resp' = Unauthorized("get_partner", id_token, NoBody)
       ELSE IF ~Has(claims, "email")
       THEN \* claims['email'] raises KeyError
            resp' = server_error("get_partner", id_token, NoBody)
       ELSE LET Mine(row) == \/ row.partner1 = claims.email
                             \/ row.partner2 = claims.email
                found == {row \in Queryable(rels, relsIdx) : Mine(row)}
            IN IF found = {}
               THEN resp' = Response("get_partner", id_token, NoBody, 200, Text(""))
               ELSE \E relationship \in found :
                      LET ByEmail(row) ==
                              row.email = partner_email(relationship, claims.email)
                          partners == {row \in Queryable(users, usersIdx) : ByEmail(row)}
                      IN IF partners = {}
                         THEN \* partner is None: partner.email raises
                              resp' = server_error("get_partner", id_token, NoBody)
                         ELSE \E partner \in partners :
                                resp' = Response("get_partner", id_token, NoBody, 200,
                                                 Json([email |-> partner.email,
                                                       name |-> partner.name,
                                                       uid |-> partner.uid]))

GetPartner ==
    /\ \E id_token \in PartnerCallers : get_partner(id_token)
    /\ UNCHANGED <<users, usersIdx, requests, requestsIdx, rels, relsIdx, notes,
                   now, calls>>

\* --------------------------------------------------------- request_partner
\* request_partner with the PartnerRequest inserted before the partner is
\* looked up.
request_partner_begin_insert_first(id_token, email) ==
    LET claims == verify_firebase_token(id_token)
        ByEmail(row) == row.email = email
    IN IF Falsy(claims)
       THEN /\ resp' = Unauthorized("request_partner", id_token, Partner(email))
            /\ UNCHANGED <<requests, calls>>
       ELSE IF ~Has(claims, "email")
       THEN /\ resp' = server_error("request_partner", id_token, Partner(email))
            /\ UNCHANGED <<requests, calls>>
       ELSE /\ Count(requests) < MaxRequests
            /\ Count(calls) < MaxInFlight
            /\ requests' = Put(requests, [asker |-> claims.email,
                                          receiver |-> email])
            /\ IF {row \in Queryable(users, usersIdx) : ByEmail(row)} = {}
               THEN /\ resp' = Response("request_partner", id_token,
                                        Partner(email), 428,
                                        Text("Nonexistent partner"))
                    /\ UNCHANGED calls
               ELSE /\ calls' = Put(calls, [pc |-> "query", token |-> id_token,
                                            email |-> email])
                    /\ UNCHANGED resp

\* request_partner without the lookup of the partner.
request_partner_begin_no_lookup(id_token, email) ==
    LET claims == verify_firebase_token(id_token)
    IN IF Falsy(claims)
       THEN /\ resp' = Unauthorized("request_partner", id_token, Partner(email))
            /\ UNCHANGED <<requests, calls>>
       ELSE IF ~Has(claims, "email")
       THEN /\ resp' = server_error("request_partner", id_token, Partner(email))
            /\ UNCHANGED <<requests, calls>>
       ELSE /\ Count(requests) < MaxRequests
            /\ Count(calls) < MaxInFlight
            /\ requests' = Put(requests, [asker |-> claims.email,
                                          receiver |-> email])
            /\ calls' = Put(calls, [pc |-> "query", token |-> id_token,
                                    email |-> email])
            /\ UNCHANGED resp

\* Lines 137-151: verify, look the partner up, insert the PartnerRequest.
request_partner_begin(id_token, email) ==
    LET claims == verify_firebase_token(id_token)
        ByEmail(row) == row.email = email
    IN IF Falsy(claims)
       THEN /\ resp' = Unauthorized("request_partner", id_token, Partner(email))
            /\ UNCHANGED <<requests, calls>>
       ELSE IF {row \in Queryable(users, usersIdx) : ByEmail(row)} = {}
       THEN /\ resp' = Response("request_partner", id_token, Partner(email), 428,
                                Text("Nonexistent partner"))
            /\ UNCHANGED <<requests, calls>>
       ELSE IF ~Has(claims, "email")
       THEN \* claims['email'] raises KeyError
            /\ resp' = server_error("request_partner", id_token, Partner(email))
            /\ UNCHANGED <<requests, calls>>
       ELSE /\ Count(requests) < MaxRequests
            /\ Count(calls) < MaxInFlight
            /\ requests' = Put(requests, [asker |-> claims.email,
                                          receiver |-> email])
            /\ calls' = Put(calls, [pc |-> "query", token |-> id_token,
                                    email |-> email])
            /\ UNCHANGED resp

\* The test made of the query object, which is never None, not of query.get().
request_partner_query_object(call) ==
    /\ call.pc = "query"
    /\ calls' = Put(Take(calls, call),
                    [pc |-> "insert", token |-> call.token, email |-> call.email,
                     found |-> TRUE])

\* The query with asker and receiver the way of the call's own row.
request_partner_query_own_row(call) ==
    LET claims == verify_firebase_token(call.token)
        Own(row) == /\ row.asker = claims.email
                    /\ row.receiver = call.email
    IN /\ call.pc = "query"
       /\ calls' = Put(Take(calls, call),
                       [pc |-> "insert", token |-> call.token,
                        email |-> call.email,
                        found |-> {row \in Queryable(requests, requestsIdx) : Own(row)} # {}])

\* Lines 153-155: the query for the reciprocal PartnerRequest.
request_partner_query(call) ==
    LET claims == verify_firebase_token(call.token)
        Reciprocal(row) == /\ row.asker = call.email
                           /\ row.receiver = claims.email
    IN /\ call.pc = "query"
       /\ calls' = Put(Take(calls, call),
                       [pc |-> "insert", token |-> call.token,
                        email |-> call.email,
                        found |-> {row \in Queryable(requests, requestsIdx) : Reciprocal(row)} # {}])

\* Lines 155-161: insert the Relationship if the query found a row; return.
request_partner_end(call) ==
    LET claims == verify_firebase_token(call.token)
        partners == sorted(call.email, claims.email)
    IN /\ call.pc = "insert"
       /\ IF call.found
          THEN /\ Count(rels) < MaxRels
               /\ rels' = Put(rels, [partner1 |-> partners[1],
                                     partner2 |-> partners[2]])
          ELSE UNCHANGED rels
       /\ calls' = Take(calls, call)
       /\ resp' = Response("request_partner", call.token, Partner(call.email),
                        200, Text("OK"))

RequestPartnerBegin ==
    /\ \E id_token \in PartnerCallers, email \in Emails :
          request_partner_begin(id_token, email)
    /\ UNCHANGED <<users, usersIdx, requestsIdx, rels, relsIdx, notes, now>>

RequestPartnerQuery ==
    /\ \E call \in Present(calls) : request_partner_query(call)
    /\ UNCHANGED <<users, usersIdx, requests, requestsIdx, rels, relsIdx, notes,
                   now, resp>>

RequestPartnerEnd ==
    /\ \E call \in Present(calls) : request_partner_end(call)
    /\ UNCHANGED <<users, usersIdx, requests, requestsIdx, relsIdx, notes, now>>

\* ------------------------------------------------- the datastore's indexes
\* A committed row reaches the index non-ancestor queries are served from.
ApplyUser ==
    /\ \E row \in Present(users) \ usersIdx : usersIdx' = usersIdx \cup {row}
    /\ UNCHANGED <<users, requests, requestsIdx, rels, relsIdx, notes, now,
                   calls, resp>>

ApplyRequest ==
    /\ \E row \in Present(requests) \ requestsIdx :
          requestsIdx' = requestsIdx \cup {row}
    /\ UNCHANGED <<users, usersIdx, requests, rels, relsIdx, notes, now, calls,
                   resp>>

ApplyRelationship ==
    /\ \E row \in Present(rels) \ relsIdx : relsIdx' = relsIdx \cup {row}
    /\ UNCHANGED <<users, usersIdx, requests, requestsIdx, rels, notes, now,
                   calls, resp>>

\* ---------------------------------------------------------- query_database
\* The query ordered by created, oldest first.
Precedes_oldest_first(n, m) ==
    \/ n.created < m.created
    \/ n.created = m.created /\ n.id < m.id

\* The order of Note.query(ancestor=...).order(-Note.created): by created,
\* latest first; rows of equal created in the order of their keys.
Precedes(n, m) ==
    \/ n.created > m.created
    \/ n.created = m.created /\ n.id < m.id

RECURSIVE Ordered(_)
\* query.fetch(): the rows in the query's order.
Ordered(rows) ==
    IF rows = {} THEN <<>>
    ELSE LET first == CHOOSE n \in rows : \A m \in rows \ {n} : Precedes(n, m)
         IN <<first>> \o Ordered(rows \ {first})

\* Lines 78-83: the message a note becomes.
NoteMessage(note) ==
    [friendly_id |-> note.friendly_id, message |-> note.message,
     created |-> note.created]

\* Line 72-74: an ancestor query reads every committed row under the key.
query_database(user_id) ==
    LET fetched == Ordered({n \in notes : n.parent = user_id})
    IN [i \in 1 .. Len(fetched) |-> NoteMessage(fetched[i])]

\* -------------------------------------------------------------- list_notes
list_notes(id_token) ==
    LET claims == verify_firebase_token(id_token)
    IN IF Falsy(claims)
       THEN resp' = Unauthorized("list_notes", id_token, NoBody)
       ELSE resp' = Response("list_notes", id_token, NoBody, 200,
                             Json(query_database(claims.sub)))

ListNotes ==
    /\ \E id_token \in NoteCallers : list_notes(id_token)
    /\ UNCHANGED <<users, usersIdx, requests, requestsIdx, rels, relsIdx, notes,
                   now, calls>>

\* ---------------------------------------------------------------- add_note
\* The email taken before the name.
friendly_id_email_first(claims) ==
    IF Has(claims, "email") THEN claims.email
    ELSE IF Has(claims, "name") THEN claims.name
    ELSE "Unknown"

\* Line 211: claims.get('name', claims.get('email', 'Unknown'))
friendly_id(claims) ==
    IF Has(claims, "name") THEN claims.name
    ELSE IF Has(claims, "email") THEN claims.email
    ELSE "Unknown"

\* The ids the datastore may allocate to a new Note under a parent: any id no
\* row under that parent holds.
FreeIds(parent) == (1 .. MaxNotes) \ {n.id : n \in {m \in notes : m.parent = parent}}

add_note(id_token, message) ==
    LET claims == verify_firebase_token(id_token)
    IN IF Falsy(claims)
       THEN /\ resp' = Unauthorized("add_note", id_token, Message(message))
            /\ UNCHANGED notes
       ELSE /\ Cardinality(notes) < MaxNotes
            /\ \E id \in FreeIds(claims.sub) :
                 /\ notes' = notes \cup {[parent |-> claims.sub, id |-> id,
                                          friendly_id |-> friendly_id(claims),
                                          message |-> message, created |-> now]}
                 \* key: the key note.put() returned
                 /\ resp' = [key |-> id] @@
                            Response("add_note", id_token, Message(message), 200,
                                     Text("OK"))

AddNote ==
    /\ \E id_token \in NoteCallers, message \in Messages :
          add_note(id_token, message)
    /\ UNCHANGED <<users, usersIdx, requests, requestsIdx, rels, relsIdx, now,
                   calls>>

\* The wall clock moves on between two readings, or does not.
Tick ==
    /\ now < MaxClock
    /\ now' = now + 1
    /\ UNCHANGED <<users, usersIdx, requests, requestsIdx, rels, relsIdx, notes,
                   calls, resp>>

\* ----------------------------------------------------------- specifications
NoCallInFlight == Count(calls) = 0

\* The partner endpoints, request_partner calls served concurrently.
Next ==
    \/ AddUser
    \/ GetPartner
    \/ RequestPartnerBegin
    \/ RequestPartnerQuery
    \/ RequestPartnerEnd
    \/ ApplyUser
    \/ ApplyRequest
    \/ ApplyRelationship

Spec == Init /\ [][Next]_vars

\* The note endpoints.
NextNotes ==
    \/ AddNote
    \/ ListNotes
    \/ Tick

SpecNotes == Init /\ [][NextNotes]_vars

\* All five endpoints, one call at a time, within one reading of the clock,
\* over a datastore of at most MaxRows rows.
Rows == Count(users) + Count(requests) + Count(rels) + Cardinality(notes)

NextAll ==
    \/ NoCallInFlight /\ AddUser /\ Rows' <= MaxRows
    \/ NoCallInFlight /\ GetPartner
    \/ NoCallInFlight /\ RequestPartnerBegin /\ Rows' <= MaxRows
    \/ RequestPartnerQuery
    \/ RequestPartnerEnd /\ Rows' <= MaxRows
    \/ NoCallInFlight /\ ListNotes
    \/ NoCallInFlight /\ AddNote /\ Rows' <= MaxRows
    \/ ApplyUser
    \/ ApplyRequest
    \/ ApplyRelationship

SpecAll == Init /\ [][NextAll]_vars

\* The partner endpoints served one call at a time, from a datastore in which
\* Alice and Bob are registered and nothing else has happened.
InitSeq ==
    /\ users = SetToBag(UserRows)
    /\ usersIdx = UserRows
    /\ requests = EmptyBag
    /\ requestsIdx = {}
    /\ rels = EmptyBag
    /\ relsIdx = {}
    /\ notes = {}
    /\ now = 0
    /\ calls = EmptyBag
    /\ resp = NoResp

NextSeq ==
    \/ NoCallInFlight /\ AddUser
    \/ NoCallInFlight /\ GetPartner
    \/ NoCallInFlight /\ RequestPartnerBegin
    \/ RequestPartnerQuery
    \/ RequestPartnerEnd
    \/ ApplyRequest
    \/ ApplyRelationship

SpecSeq == InitSeq /\ [][NextSeq]_vars

\* ------------------------------------------------------------------ claims
Claims(tok) == verify_firebase_token(tok)

\* The identities add_user can register: claims with a name and an email.
Registrable == {t \in PartnerCallers :
                  /\ ~Falsy(Claims(t))
                  /\ Has(Claims(t), "name")
                  /\ Has(Claims(t), "email")}

Profile(tok) ==
    [email |-> Claims(tok).email, name |-> Claims(tok).name,
     uid |-> Claims(tok).sub]

Request(a, b) == [asker |-> a, receiver |-> b]

\* The Relationship rows of the pair {a, b}, in either order of the fields.
RelCount(a, b) ==
    Copies(rels, [partner1 |-> a, partner2 |-> b])
      + (IF a = b THEN 0 ELSE Copies(rels, [partner1 |-> b, partner2 |-> a]))

\* C1: with A and B registered and nothing between them, request-partner by A
\* naming B and then by B naming A, each run to completion, leave exactly one
\* Relationship row for the pair, its fields in strictly increasing order, and
\* get-partner by A then returns B's profile (and by B, A's).  Under SpecSeq
\* calls run one at a time from the state with Alice and Bob registered, and
\* one PartnerRequest row in each direction means one completed call each way.
C1_ReciprocalRequestsFormOneRelationship ==
    \A tA \in Registrable, tB \in Registrable :
      LET a == Claims(tA).email
          b == Claims(tB).email
          p == sorted(a, b)
      IN (/\ tA # tB
          /\ NoCallInFlight
          /\ Copies(requests, Request(a, b)) = 1
          /\ Copies(requests, Request(b, a)) = 1)
         => /\ RelCount(a, b) = 1
            /\ Copies(rels, [partner1 |-> p[1], partner2 |-> p[2]]) = 1
            /\ LexLess(Chars(p[1]), Chars(p[2]))
            /\ (resp.op = "get_partner" /\ resp.token = tA)
                 => (resp.status = 200 /\ resp.body = Json(Profile(tB)))

\* C2: after any number of add-user calls with the same verified identity,
\* exactly one User row with that uid exists, and each call returned 200.
C2_AddUserIdempotent ==
    \A t \in Registrable :
      (resp.op = "add_user" /\ resp.token = t)
        => /\ resp.status = 200
           /\ BagCardinality([row \in {r \in Present(users) : r.uid = Claims(t).sub}
                                |-> Copies(users, row)]) = 1

C4_NonexistentPartner ==
    [][(/\ resp' # resp
        /\ resp'.op = "request_partner"
        /\ ~Falsy(Claims(resp'.token))
        /\ \A row \in Present(users) : row.email # resp'.arg.partner)
         => /\ resp'.status = 428
            /\ store' = store]_vars

\* Alice, registered, names Bob, who is not.
C4_Witness ==
    /\ resp.op = "request_partner"
    /\ resp.token = "tokA"
    /\ resp.arg = Partner(EmailB)
    /\ resp.status = 428
    /\ Copies(users, Profile("tokA")) > 0
    /\ Copies(users, Profile("tokB")) = 0

\* What list-notes shows of a note.
Listed(note) ==
    [friendly_id |-> note.friendly_id, message |-> note.message,
     created |-> note.created]

\* The notes created under a subject id.
Owned(sub) == {n \in notes : n.parent = sub}

Times(seq, x) == Cardinality({i \in DOMAIN seq : seq[i] = x})

\* The body lists each note of Owned(sub) once and nothing else.
ListsExactly(body, sub) ==
    /\ Len(body) = Cardinality(Owned(sub))
    /\ \A n \in Owned(sub) :
         Times(body, Listed(n))
           = Cardinality({m \in Owned(sub) : Listed(m) = Listed(n)})

\* C5 as amended: list-notes for U returns exactly the notes created under U's
\* subject id, in descending createdAt order; notes of equal createdAt follow
\* one another in either order.
C5_ListNotesOwnDescending ==
    \A t \in NoteCallers :
      (resp.op = "list_notes" /\ resp.token = t /\ ~Falsy(Claims(t)))
        => /\ resp.status = 200
           /\ ListsExactly(resp.body.json, Claims(t).sub)
           /\ \A i \in DOMAIN resp.body.json, j \in DOMAIN resp.body.json :
                i < j => resp.body.json[i].created >= resp.body.json[j].created

\* C5 as stated: ... in strictly descending createdAt order.
C5_ListNotesStrictlyDescending ==
    \A t \in NoteCallers :
      (resp.op = "list_notes" /\ resp.token = t /\ ~Falsy(Claims(t)))
        => /\ resp.status = 200
           /\ ListsExactly(resp.body.json, Claims(t).sub)
           /\ \A i \in DOMAIN resp.body.json, j \in DOMAIN resp.body.json :
                i < j => resp.body.json[i].created > resp.body.json[j].created

\* Two notes of one user, written at different readings of the clock, listed.
C5_Witness ==
    /\ resp.op = "list_notes"
    /\ resp.token = "tokE"
    /\ Len(resp.body.json) = 2
    /\ resp.body.json[1].created > resp.body.json[2].created
    /\ resp.body.json[1].message # resp.body.json[2].message

\* The friendlyId the claims call for.
ExpectedFriendlyId(tok) ==
    IF "name" \in DOMAIN Claims(tok) THEN Claims(tok).name
    ELSE IF "email" \in DOMAIN Claims(tok) THEN Claims(tok).email
    ELSE "Unknown"

\* A step from a successful add-note by a user to a list-notes by that user.
AddThenList ==
    /\ resp.op = "add_note"
    /\ resp.status = 200
    /\ resp'.op = "list_notes"
    /\ resp'.token = resp.token

\* The note the add-note call of resp created.
NewNote ==
    CHOOSE n \in notes : n.parent = Claims(resp.token).sub /\ n.id = resp.key

OneDirectionFormsNone ==
    \A a \in Emails, b \in Emails :
      Copies(requests, Request(b, a)) = 0 => RelCount(a, b) = 0

InFlight(a, b) ==
    BagCardinality([call \in {c \in Present(calls) :
                                {c.email, Claims(c.token).email} = {a, b}}
                      |-> Copies(calls, call)])

\* C8: two concurrent request-partner calls, A naming B and B naming A, may
\* each miss the other's row, so that no Relationship is formed, or each find
\* it, so that two are.  As an invariant: a call finds only a committed
\* reciprocal row, and the completed calls between a pair, one Relationship at
\* most each, bound the pair's Relationship rows; C8_Witness and C9_Witness are
\* the two ends.
C8_RaceOutcomes ==
    /\ \A call \in Present(calls) :
         (call.pc = "insert" /\ call.found)
           => Copies(requests, Request(call.email, Claims(call.token).email)) > 0
    /\ \A a \in Emails, b \in Emails :
         a # b => RelCount(a, b) + InFlight(a, b)
                    <= Copies(requests, Request(a, b))
                         + Copies(requests, Request(b, a))

\* Both calls have inserted their row and run their query, neither found the
\* other's row, and no Relationship exists: none will be formed.
C8_Witness ==
    /\ Copies(calls, [pc |-> "insert", token |-> "tokA", email |-> EmailB,
                      found |-> FALSE]) = 1
    /\ Copies(calls, [pc |-> "insert", token |-> "tokB", email |-> EmailA,
                      found |-> FALSE]) = 1
    /\ Copies(requests, Request(EmailA, EmailB)) = 1
    /\ Copies(requests, Request(EmailB, EmailA)) = 1
    /\ rels = EmptyBag

\* C9: every Relationship row has partner1 <= partner2 and a PartnerRequest
\* row in each direction between its partners.
C9_RelationshipSortedAndBacked ==
    \A row \in Present(rels) :
      /\ ~LexLess(Chars(row.partner2), Chars(row.partner1))
      /\ Copies(requests, Request(row.partner1, row.partner2)) > 0
      /\ Copies(requests, Request(row.partner2, row.partner1)) > 0

\* One call in each direction, both found the other's row: two Relationship
\* rows for the pair, both with Alice first.
C9_Witness ==
    /\ Copies(requests, Request(EmailA, EmailB)) = 1
    /\ Copies(requests, Request(EmailB, EmailA)) = 1
    /\ Copies(rels, [partner1 |-> EmailA, partner2 |-> EmailB]) = 2
    /\ NoCallInFlight

\* C10: both partners of every Relationship row are the email of a User row
\* the index holds, and get-partner never fails on a missing partner: its only
\* failure is that of a caller without an email.
C10_PartnersAreUsers ==
    /\ \A row \in Present(rels) :
         \A email \in {row.partner1, row.partner2} :
           \E user \in Present(users) \cap usersIdx : user.email = email
    /\ (resp.op = "get_partner" /\ resp.status = 500)
         => ~Has(Claims(resp.token), "email")

\* get-partner by Alice found a Relationship and resolved Bob.
C10_Witness ==
    /\ resp = Response("get_partner", "tokA", NoBody, 200, Json(Profile("tokB")))
    /\ Copies(rels, [partner1 |-> EmailA, partner2 |-> EmailB]) > 0

=============================================================================
